---- MODULE Spec2Model ----
(***************************************************************************)
(* Watson synchronisation core: Watson.pull / Watson.push /                *)
(* Watson.merge_report (watson/watson.py) talking to the artich.io HTTP    *)
(* backend ArtichIOSync (watson/artichio.py).                              *)
(*                                                                         *)
(* Every operation is one action: the call runs to completion (the         *)
(* program is single threaded and synchronous).  Besides the program state *)
(* (frames, last_sync, config) and the server state (remote), the model    *)
(* keeps an observation of the last call: its name, argument, the store    *)
(* before it, the requests it issued, what the backend yielded, the push   *)
(* batch, the list it built and the exception raised.                      *)
(* Watson.start / stop / cancel and the last_sync property are modelled    *)
(* the same way.                                                           *)
(***************************************************************************)
EXTENDS Integers, Sequences, FiniteSets, TLC

VARIABLES frames,      \* Watson.frames: the local frame store, id -> Frame
          last_sync,   \* Watson._last_sync: the sync cursor, Unloaded until first read
          last_sync_file, \* the last_sync file: missing, empty or a JSON number
          current,     \* Watson.current: the session in progress, << >> when none
          kept_backend, \* a backend instance a caller keeps across calls
          fetches,     \* how often that instance fetched the projects listing
          old,         \* _last_sync and current when the call started
          sync,        \* what the sync rounds so far selected for upload
          config,      \* Watson.config: backend.url and backend.token
          remote,      \* the server's frames, id -> JSON frame object
          op,          \* the last call: "none", "pull", "push", "merge_report"
          arg,         \* its argument (push: last_pull, merge_report: the conflict set)
          old_frames,  \* the local store when the call started
          requests,    \* the HTTP requests the call issued, in order
          response,    \* pull: the JSON array the frames request returned
          yielded,     \* pull: the Frames backend.pull yielded, in order
          batch,       \* push: the frames selected by Watson.push, in order
          result,      \* the list the call built; it is returned iff outcome = NoError
          outcome,     \* the exception raised, or NoError
          prev         \* op and outcome of the call before

vars == <<frames, last_sync, last_sync_file, current, kept_backend, fetches, old,
          sync, config, remote, op, arg, old_frames, requests,
          response, yielded, batch, result, outcome, prev>>

(***************************************************************************)
(* Bounds and value domains                                                *)
(***************************************************************************)
MaxTime == 2
MaxConflict == 2

Time == 0 .. MaxTime

\* Frame ids are opaque strings; IdSeq is the store's iteration order.
IdSeq == <<"f1", "f2">>
Ids == {IdSeq[i] : i \in 1 .. Len(IdSeq)}

\* Python's None, as returned by config.get for a missing option.
None == "None"

\* Python truthiness of an optional string: None and "" are falsy.
Truthy(v) == v # None /\ v # ""

(***************************************************************************)
(* Frame and the frame store (watson/frames.py)                            *)
(***************************************************************************)
\* Frame(start, stop, project, id, tags, updated_at): a record of six fields;
\* two Frames are equal iff every field is equal.
Frame(start, stop, project, id, tags, updated_at) ==
    [start |-> start, stop |-> stop, project |-> project, id |-> id,
     tags |-> tags, updated_at |-> updated_at]

\* `key in frames`
Contains(store, key) == key \in DOMAIN store

\* `frames[key] = frame`: insert, or overwrite the frame stored under key
SetItem(store, key, frame) == (key :> frame) @@ store

\* `for frame in frames`: the stored frames in iteration order
RECURSIVE IterFrom(_, _)
IterFrom(store, i) ==
    IF i > Len(IdSeq) THEN <<>>
    ELSE (IF Contains(store, IdSeq[i]) THEN <<store[IdSeq[i]]>> ELSE <<>>)
         \o IterFrom(store, i + 1)

Iter(store) == IterFrom(store, 1)

\* frames.add(project, start, stop, tags): a new Frame under a new id,
\* updated at the time of the call.
FramesAdd(store, id, project, start, stop, tags, now) ==
    SetItem(store, id, Frame(start, stop, project, id, tags, now))

(***************************************************************************)
(* Exceptions                                                              *)
(***************************************************************************)
NoError == [type |-> "none", msg |-> ""]
NoProjectGiven == [type |-> "WatsonError", msg |-> "No project given."]
AlreadyStarted == [type |-> "WatsonError", msg |-> "Project is already started."]
NotStarted == [type |-> "WatsonError", msg |-> "No project started."]
ConfigurationError == [type |-> "ConfigurationError", msg |-> "You must specify a remote URL and a token"]
Unreachable == [type |-> "WatsonError", msg |-> "Unable to reach the server."]
RemoteStatus == [type |-> "WatsonError", msg |-> "An error occured with the remote server"]
InvalidProject == [type |-> "WatsonError", msg |-> "Received frame with invalid project from the server"]
ProjectMissing == [type |-> "WatsonError", msg |-> "The project does not exists on the remote server"]
TypeError == [type |-> "TypeError", msg |-> "string indices must be integers"]

(***************************************************************************)
(* The server                                                              *)
(***************************************************************************)
\* JSON values of a frame's "project" member: a string (the project's URL)
\* or an object, kept as its "id" member.
JStr(s) == [t |-> "str", v |-> s]
JObj(id) == [t |-> "obj", v |-> id]

\* A frame object of the frames response: id, start, stop, project (a
\* reference to the remote project), tags, updated_at.
JsonFrame(id, start, stop, project, tags, updated_at) ==
    [id |-> id, start |-> start, stop |-> stop, project |-> project,
     tags |-> tags, updated_at |-> updated_at]

\* The projects listing served at {root}/projects/: array of {name, url}.
RemoteProjects ==
    <<[name |-> "A", url |-> "uA"], [name |-> "B", url |-> "uB"]>>

\* How a request ends: "ok" (the expected status), "status" (another status
\* code), "conn" (requests.ConnectionError).
NetOutcomes == {"ok", "status", "conn"}

\* One HTTP request: method, route below the endpoint root, payload (query
\* parameters or body) and how it ended.
Request(method, route, data, net) ==
    [method |-> method, route |-> route, data |-> data, net |-> net]

\* All orderings of a finite set, as sequences without repetition.
RECURSIVE Orderings(_)
Orderings(S) ==
    IF S = {} THEN {<<>>}
    ELSE UNION {{<<x>> \o s : s \in Orderings(S \ {x})} : x \in S}

\* The JSON arrays GET frames/?last_sync=cursor may return: the server's
\* frames updated at or after the cursor, in any order.
FramesSince(srv, cursor) ==
    Orderings({srv[i] : i \in {j \in DOMAIN srv : srv[j].updated_at >= cursor}})

(***************************************************************************)
(* ArtichIOSync (watson/artichio.py)                                       *)
(***************************************************************************)
\* ArtichIOSync(config): a new backend instance, without _remote_projects.
ArtichIOSync(cfg) ==
    [config |-> cfg, has_remote_projects |-> FALSE, _remote_projects |-> <<>>]

\* The configuration test with `or` for `and`, a slip of the code.
_get_request_info_EitherSet(self, route) ==
    IF Truthy(self.config.url) \/ Truthy(self.config.token)
    THEN [err |-> NoError, dest |-> route, token |-> self.config.token]
    ELSE [err |-> ConfigurationError, dest |-> None, token |-> None]

\* _get_request_info(route): the destination and token, or ConfigurationError.
_get_request_info(self, route) ==
    IF Truthy(self.config.url) /\ Truthy(self.config.token)
    THEN [err |-> NoError, dest |-> route, token |-> self.config.token]
    ELSE [err |-> ConfigurationError, dest |-> None, token |-> None]

\* A projects request whose connection failure is taken for an empty
\* listing, a slip of the code.
_get_remote_projects_FailureAsEmpty(self, pnet) ==
    IF self.has_remote_projects
    THEN [err |-> NoError, self |-> self, sent |-> <<>>]
    ELSE [err |-> NoError,
          self |-> [self EXCEPT !.has_remote_projects = TRUE,
                                !._remote_projects =
                                    IF pnet = "ok" THEN RemoteProjects ELSE <<>>],
          sent |-> <<Request("GET", "projects", <<>>, pnet)>>]

\* _get_remote_projects() that fetches the listing on every call, a slip of
\* the code.
_get_remote_projects_Refetches(self, pnet) ==
    LET info == _get_request_info(self, "projects")
        req == Request("GET", info.dest, <<>>, pnet)
    IN  IF info.err # NoError
        THEN [err |-> info.err, self |-> self, sent |-> <<>>]
        ELSE IF pnet = "ok"
        THEN [err |-> NoError,
              self |-> [self EXCEPT !.has_remote_projects = TRUE,
                                    !._remote_projects = RemoteProjects],
              sent |-> <<req>>]
        ELSE IF pnet = "conn"
        THEN [err |-> Unreachable, self |-> self, sent |-> <<req>>]
        ELSE [err |-> RemoteStatus, self |-> self, sent |-> <<req>>]

\* _get_remote_projects(): the memoized listing; the first call fetches it.
\* pnet is how the projects request ends if it is made.
_get_remote_projects(self, pnet) ==
    IF self.has_remote_projects
    THEN [err |-> NoError, self |-> self, sent |-> <<>>]
    ELSE LET info == _get_request_info(self, "projects")
             req == Request("GET", info.dest, <<>>, pnet)
         IN  IF info.err # NoError
             THEN [err |-> info.err, self |-> self, sent |-> <<>>]
             ELSE IF pnet = "ok"
             THEN [err |-> NoError,
                   self |-> [self EXCEPT !.has_remote_projects = TRUE,
                                         !._remote_projects = RemoteProjects],
                   sent |-> <<req>>]
             ELSE IF pnet = "conn"
             THEN [err |-> Unreachable, self |-> self, sent |-> <<req>>]
             ELSE [err |-> RemoteStatus, self |-> self, sent |-> <<req>>]

\* next(...) over an empty generator raises StopIteration.
StopIteration == "StopIteration"

Min(S) == CHOOSE x \in S : \A y \in S : x <= y

\* next(p['name'] for p in projects if p['url'] == project)
NameOfUrl(projects, project) ==
    LET hits == {i \in 1 .. Len(projects) :
                    project.t = "str" /\ projects[i].url = project.v}
    IN  IF hits = {} THEN StopIteration ELSE projects[Min(hits)].name

\* A lookup that falls back to the first project instead of raising, a slip
\* of the code.
UrlOfName_FirstAsDefault(projects, name) ==
    LET hits == {i \in 1 .. Len(projects) : projects[i].name = name}
    IN  IF hits = {} THEN projects[1].url ELSE projects[Min(hits)].url

\* next(p['url'] for p in projects if p['name'] == name)
UrlOfName(projects, name) ==
    LET hits == {i \in 1 .. Len(projects) : projects[i].name = name}
    IN  IF hits = {} THEN StopIteration ELSE projects[Min(hits)].url

\* The handler of an unresolved project in pull formats its message with
\* frame['project']['id']: indexing a str with 'id' raises TypeError, an
\* object yields its id and the WatsonError is raised.
InvalidProjectRaise(project) ==
    IF project.t = "str" THEN TypeError ELSE InvalidProject

\* ArtichIOSync.pull, up to the loop: the frames request.  It runs when the
\* generator is first advanced.
ArtichIOSync_pull_request(self, cursor, fnet, body) ==
    LET info == _get_request_info(self, "frames")
        req == Request("GET", info.dest, <<cursor>>, fnet)
    IN  IF info.err # NoError
        THEN [err |-> info.err, sent |-> <<>>, json |-> <<>>]
        ELSE IF fnet = "ok"
        THEN [err |-> NoError, sent |-> <<req>>, json |-> body]
        ELSE IF fnet = "conn"
        THEN [err |-> Unreachable, sent |-> <<req>>, json |-> <<>>]
        ELSE [err |-> RemoteStatus, sent |-> <<req>>, json |-> <<>>]

\* ArtichIOSync.pull, one round of the loop: resolve the project of one JSON
\* frame and yield the Frame, or raise.
ArtichIOSync_pull_next(self, frame, pnet) ==
    LET rp == _get_remote_projects(self, pnet)
        project == NameOfUrl(rp.self._remote_projects, frame.project)
    IN  IF rp.err # NoError
        THEN [err |-> rp.err, self |-> rp.self, sent |-> rp.sent, frame |-> None]
        ELSE IF project = StopIteration
        THEN [err |-> InvalidProjectRaise(frame.project), self |-> rp.self,
              sent |-> rp.sent, frame |-> None]
        ELSE [err |-> NoError, self |-> rp.self, sent |-> rp.sent,
              frame |-> Frame(frame.start, frame.stop, project, frame.id,
                              frame.tags, frame.updated_at)]

\* str(frame.start), str(frame.stop): the timestamp as text.
Str(t) == <<"iso", t>>

\* ArtichIOSync.push, the loop: resolve every frame's project; st carries the
\* backend, to_upload, the requests sent and the error raised.
RECURSIVE ArtichIOSync_push_loop(_, _, _, _)
ArtichIOSync_push_loop(st, batchframes, i, pnet) ==
    IF i > Len(batchframes) THEN st
    ELSE LET frame == batchframes[i]
             rp == _get_remote_projects(st.self, pnet)
             project == UrlOfName(rp.self._remote_projects, frame.project)
         IN  IF rp.err # NoError
             THEN [st EXCEPT !.err = rp.err, !.sent = @ \o rp.sent]
             ELSE IF project = StopIteration
             THEN [st EXCEPT !.err = ProjectMissing, !.self = rp.self,
                             !.sent = @ \o rp.sent]
             ELSE ArtichIOSync_push_loop(
                      [st EXCEPT !.self = rp.self, !.sent = @ \o rp.sent,
                                 !.to_upload = Append(@,
                                     [id |-> frame.id, start |-> Str(frame.start),
                                      stop |-> Str(frame.stop), project |-> project,
                                      tags |-> frame.tags])],
                      batchframes, i + 1, pnet)

\* push that returns at once when there is nothing to upload, a slip of the
\* code.
ArtichIOSync_push_SkipsEmpty(self, batchframes, pnet, postnet) ==
    LET info == _get_request_info(self, "frames/bulk")
        st0 == [self |-> self, to_upload |-> <<>>, sent |-> <<>>, err |-> NoError]
        st == ArtichIOSync_push_loop(st0, batchframes, 1, pnet)
        req == Request("POST", info.dest, st.to_upload, postnet)
    IN  IF info.err # NoError
        THEN [err |-> info.err, sent |-> <<>>, uploaded |-> <<>>]
        ELSE IF st.err # NoError
        THEN [err |-> st.err, sent |-> st.sent, uploaded |-> <<>>]
        ELSE IF st.to_upload = <<>>
        THEN [err |-> NoError, sent |-> st.sent, uploaded |-> <<>>]
        ELSE IF postnet = "ok"
        THEN [err |-> NoError, sent |-> Append(st.sent, req), uploaded |-> st.to_upload]
        ELSE IF postnet = "conn"
        THEN [err |-> Unreachable, sent |-> Append(st.sent, req), uploaded |-> <<>>]
        ELSE [err |-> RemoteStatus, sent |-> Append(st.sent, req), uploaded |-> <<>>]

\* ArtichIOSync.push(frames): request info, the loop, then the bulk POST.
ArtichIOSync_push(self, batchframes, pnet, postnet) ==
    LET info == _get_request_info(self, "frames/bulk")
        st0 == [self |-> self, to_upload |-> <<>>, sent |-> <<>>, err |-> NoError]
        st == ArtichIOSync_push_loop(st0, batchframes, 1, pnet)
        req == Request("POST", info.dest, st.to_upload, postnet)
    IN  IF info.err # NoError
        THEN [err |-> info.err, sent |-> <<>>, uploaded |-> <<>>]
        ELSE IF st.err # NoError
        THEN [err |-> st.err, sent |-> st.sent, uploaded |-> <<>>]
        ELSE IF postnet = "ok"
        THEN [err |-> NoError, sent |-> Append(st.sent, req), uploaded |-> st.to_upload]
        ELSE IF postnet = "conn"
        THEN [err |-> Unreachable, sent |-> Append(st.sent, req), uploaded |-> <<>>]
        ELSE [err |-> RemoteStatus, sent |-> Append(st.sent, req), uploaded |-> <<>>]

(***************************************************************************)
(* Watson (watson/watson.py)                                               *)
(***************************************************************************)
\* self._last_sync = None: the cursor has not been read or set yet.  Also
\* the None a caller may assign to last_sync.
Unloaded == -1

\* The last_sync file: missing, empty (zero bytes) or holding a JSON number.
NoFile == [state |-> "missing", value |-> 0]
EmptyFile == [state |-> "empty", value |-> 0]
JsonFile(n) == [state |-> "json", value |-> n]

\* _load_json_file(last_sync_file, type=int): int() for a missing or an
\* empty file, else the number read.
_load_json_file(file) ==
    IF file.state \in {"missing", "empty"} THEN 0 ELSE file.value

\* arrow.get(0): the epoch.
Epoch == 0

\* _parse_date(date): the instant `date` seconds after the epoch.
_parse_date(date) == Epoch + date

\* The setter with "now" (the latest time) as its default, a slip of the code.
last_sync_setter_DefaultNow(value) ==
    IF value = Unloaded \/ value = 0 THEN MaxTime ELSE _parse_date(value)

\* last_sync.setter: the value of _last_sync after `self.last_sync = value`.
last_sync_setter(value) ==
    IF value = Unloaded \/ value = 0 THEN Epoch ELSE _parse_date(value)

\* last_sync (property): loads the file on first read; the value of
\* _last_sync after the read, which is the value returned.
last_sync_getter(_last_sync, file) ==
    IF _last_sync = Unloaded THEN last_sync_setter(_load_json_file(file))
    ELSE _last_sync

\* The Watson object: the fields the calls below read and assign.
Self(store, _last_sync, session) ==
    [frames |-> store, _last_sync |-> _last_sync, current |-> session]

\* current.setter: {} unless the value names a project; the start defaults
\* to now and the tags to [].
NoSession == << >>

current_setter(value, now) ==
    IF value = NoSession \/ value.project = "" THEN NoSession
    ELSE [project |-> value.project, start |-> now, tags |-> value.tags]

\* is_started: bool(self.current)
is_started(self) == self.current # NoSession

\* Watson.start(project, tags)
Watson_start(self, project, tags, now) ==
    IF project = ""
    THEN [self |-> self, err |-> NoProjectGiven, ret |-> <<>>]
    ELSE IF is_started(self)
    THEN [self |-> self, err |-> AlreadyStarted, ret |-> <<>>]
    ELSE LET cur == current_setter([project |-> project, tags |-> tags], now)
         IN  [self |-> [self EXCEPT !.current = cur], err |-> NoError, ret |-> <<cur>>]

\* stop() that leaves the session in place, a slip of the code.
Watson_stop_KeepsSession(self, id, now) ==
    IF ~is_started(self)
    THEN [self |-> self, err |-> NotStarted, ret |-> <<>>]
    ELSE LET old_ == self.current
             store == FramesAdd(self.frames, id, old_.project, old_.start, now,
                                old_.tags, now)
         IN  [self |-> [self EXCEPT !.frames = store],
              err |-> NoError, ret |-> <<store[id]>>]

\* Watson.stop(): the session becomes a frame stopped now; id is the new
\* frame's identifier.
Watson_stop(self, id, now) ==
    IF ~is_started(self)
    THEN [self |-> self, err |-> NotStarted, ret |-> <<>>]
    ELSE LET old_ == self.current
             store == FramesAdd(self.frames, id, old_.project, old_.start, now,
                                old_.tags, now)
         IN  [self |-> [self EXCEPT !.frames = store,
                                    !.current = current_setter(NoSession, now)],
              err |-> NoError, ret |-> <<store[id]>>]

\* Watson.cancel()
Watson_cancel(self) ==
    IF ~is_started(self)
    THEN [self |-> self, err |-> NotStarted, ret |-> <<>>]
    ELSE [self |-> [self EXCEPT !.current = current_setter(NoSession, 0)],
          err |-> NoError, ret |-> <<self.current>>]

\* Variants of the test of Watson.pull, as slips of the code would make it.
PullApplies_AtOrAfter(store, frame, cursor) ==
    ~Contains(store, frame.id) \/ frame.updated_at >= cursor

PullApplies_NewerLocalKept(store, frame, cursor) ==
    \/ ~Contains(store, frame.id)
    \/ frame.updated_at > cursor /\ frame.updated_at >= store[frame.id].updated_at

PullApplies_OnlyAbsent(store, frame, cursor) ==
    ~Contains(store, frame.id)

\* The test of Watson.pull: apply the frame iff its id is not stored or it
\* was updated after the cursor.
PullApplies(store, frame, cursor) ==
    ~Contains(store, frame.id) \/ frame.updated_at > cursor

\* Watson.pull, the for loop over backend.pull(last_sync).  The backend's
\* generator and the loop body alternate: frame i is resolved, yielded and
\* handled before frame i + 1 is resolved.  st carries the backend, the
\* store, the local list `frames`, what was yielded, the requests sent and
\* the error raised.
RECURSIVE Watson_pull_loop(_, _, _, _, _)
Watson_pull_loop(st, json, i, cursor, pnet) ==
    IF i > Len(json) THEN st
    ELSE LET nx == ArtichIOSync_pull_next(st.self, json[i], pnet)
             frame == nx.frame
             seen == [st EXCEPT !.self = nx.self, !.sent = @ \o nx.sent]
         IN  IF nx.err # NoError
             THEN [seen EXCEPT !.err = nx.err]
             ELSE Watson_pull_loop(
                      IF PullApplies(st.store, frame, cursor)
                      THEN [seen EXCEPT !.store = SetItem(@, frame.id, frame),
                                        !.frames = Append(@, frame),
                                        !.yielded = Append(@, frame)]
                      ELSE [seen EXCEPT !.yielded = Append(@, frame)],
                      json, i + 1, cursor, pnet)

\* Watson.pull(): a new backend, the cursor read once, the loop.
Watson_pull(store, cursor, cfg, fnet, pnet, body) ==
    LET backend == ArtichIOSync(cfg)
        rq == ArtichIOSync_pull_request(backend, cursor, fnet, body)
        st0 == [self |-> backend, store |-> store, frames |-> <<>>,
                yielded |-> <<>>, sent |-> rq.sent, err |-> rq.err]
    IN  IF rq.err # NoError THEN st0
        ELSE Watson_pull_loop(st0, rq.json, 1, cursor, pnet)

\* backend.pull(cursor) of a given backend instance, its generator run to
\* the end (or to the exception) by a consumer that keeps the frames.
ArtichIOSync_pull(self, cursor, fnet, pnet, body) ==
    LET rq == ArtichIOSync_pull_request(self, cursor, fnet, body)
        st0 == [self |-> self, store |-> << >>, frames |-> <<>>,
                yielded |-> <<>>, sent |-> rq.sent, err |-> rq.err]
    IN  IF rq.err # NoError THEN st0
        ELSE Watson_pull_loop(st0, rq.json, 1, cursor, pnet)

\* The backend instance after backend.push(frames): the loop may have
\* memoized the listing.
ArtichIOSync_push_self(self, batchframes, pnet) ==
    IF _get_request_info(self, "frames/bulk").err # NoError THEN self
    ELSE ArtichIOSync_push_loop(
             [self |-> self, to_upload |-> <<>>, sent |-> <<>>, err |-> NoError],
             batchframes, 1, pnet).self

\* The window of Watson.push with its upper end included, a slip of the code.
InPushWindow_UpToLastPull(frame, cursor, last_pull) ==
    last_pull >= frame.updated_at /\ frame.updated_at > cursor

\* The window without its lower end, a slip of the code.
InPushWindow_NoLowerEnd(frame, cursor, last_pull) ==
    last_pull > frame.updated_at

\* The window with its lower end included, a slip of the code.
InPushWindow_FromCursor(frame, cursor, last_pull) ==
    last_pull > frame.updated_at /\ frame.updated_at >= cursor

\* The generator of Watson.push: last_pull > frame.updated_at > last_sync.
InPushWindow(frame, cursor, last_pull) ==
    last_pull > frame.updated_at /\ frame.updated_at > cursor

PushBatch(store, cursor, last_pull) ==
    SelectSeq(Iter(store), LAMBDA f : InPushWindow(f, cursor, last_pull))

\* Watson.push(last_pull): a new backend, the selected frames handed to it.
Watson_push(store, cursor, cfg, last_pull, pnet, postnet) ==
    ArtichIOSync_push(ArtichIOSync(cfg), PushBatch(store, cursor, last_pull),
                      pnet, postnet)

\* The comparison of merge_report leaving updated_at out, a slip of the code.
MergeClass_IgnoringUpdatedAt(store, conflict_frame) ==
    IF ~Contains(store, conflict_frame.id) THEN "merging"
    ELSE IF [store[conflict_frame.id] EXCEPT !.updated_at = 0]
            # [conflict_frame EXCEPT !.updated_at = 0] THEN "conflicting"
    ELSE "same"

\* Watson.merge_report, the loop body for one frame of the conflict file:
\* frames[id] raises KeyError when the id is not stored.
MergeClass(store, conflict_frame) ==
    IF ~Contains(store, conflict_frame.id) THEN "merging"
    ELSE IF store[conflict_frame.id] # conflict_frame THEN "conflicting"
    ELSE "same"

\* Watson.merge_report(frames_with_conflict), the loop over the frames of the
\* conflict file: (conflicting, merging).
RECURSIVE Watson_merge_loop(_, _, _, _)
Watson_merge_loop(acc, store, conflict_file_frames, i) ==
    IF i > Len(conflict_file_frames) THEN acc
    ELSE LET conflict_frame == conflict_file_frames[i]
             class == MergeClass(store, conflict_frame)
         IN  Watson_merge_loop(
                 IF class = "conflicting"
                 THEN [acc EXCEPT !.conflicting = Append(@, conflict_frame)]
                 ELSE IF class = "merging"
                 THEN [acc EXCEPT !.merging = Append(@, conflict_frame)]
                 ELSE acc,
                 store, conflict_file_frames, i + 1)

Watson_merge_report(store, conflict_file_frames) ==
    Watson_merge_loop([conflicting |-> <<>>, merging |-> <<>>],
                      store, conflict_file_frames, 1)

\* pull that keeps only the frames it applied, dropping the rest of the
\* store, a slip of the code.
Watson_pull_self_Replaces(self, file, cfg, fnet, pnet, body) ==
    LET cursor == last_sync_getter(self._last_sync, file)
        r == Watson_pull(self.frames, cursor, cfg, fnet, pnet, body)
    IN  [self |-> [self EXCEPT
                      !.frames = [i \in {r.frames[k].id : k \in 1 .. Len(r.frames)}
                                     |-> r.store[i]],
                      !._last_sync = cursor],
         r |-> r]

\* pull that stamps the frames it stores with the cursor, a slip of the
\* code.
Watson_pull_self_StampsFrames(self, file, cfg, fnet, pnet, body) ==
    LET cursor == last_sync_getter(self._last_sync, file)
        r == Watson_pull(self.frames, cursor, cfg, fnet, pnet, body)
        applied == {r.frames[k].id : k \in 1 .. Len(r.frames)}
    IN  [self |-> [self EXCEPT
                      !.frames = [i \in DOMAIN r.store |->
                                     IF i \in applied
                                     THEN [r.store[i] EXCEPT !.updated_at = cursor]
                                     ELSE r.store[i]],
                      !._last_sync = cursor],
         r |-> r]

\* Watson.pull() on the Watson object: line 312 reads the last_sync
\* property, which loads the cursor if it was not loaded.
Watson_pull_self(self, file, cfg, fnet, pnet, body) ==
    LET cursor == last_sync_getter(self._last_sync, file)
        r == Watson_pull(self.frames, cursor, cfg, fnet, pnet, body)
    IN  [self |-> [self EXCEPT !.frames = r.store, !._last_sync = cursor], r |-> r]

\* push that moves the cursor to last_pull when the upload succeeded, a slip
\* of the code.
Watson_push_self_Advances(self, file, cfg, last_pull, pnet, postnet) ==
    LET cursor == last_sync_getter(self._last_sync, file)
        r == Watson_push(self.frames, cursor, cfg, last_pull, pnet, postnet)
    IN  [self |-> [self EXCEPT !._last_sync =
                      IF r.err = NoError THEN last_pull ELSE cursor],
         r |-> r, batch |-> PushBatch(self.frames, cursor, last_pull)]

\* Watson.push(last_pull) on the Watson object.  The generator of line
\* 325-326 reads the last_sync property once per stored frame, when the
\* backend iterates it: the cursor is loaded unless the backend raised
\* before its loop or the store is empty.
Watson_push_self(self, file, cfg, last_pull, pnet, postnet) ==
    LET cursor == last_sync_getter(self._last_sync, file)
        r == Watson_push(self.frames, cursor, cfg, last_pull, pnet, postnet)
        iterated == r.err # ConfigurationError /\ Iter(self.frames) # <<>>
    IN  [self |-> [self EXCEPT !._last_sync = IF iterated THEN cursor ELSE @],
         r |-> r, batch |-> PushBatch(self.frames, cursor, last_pull)]

\* merge_report that inserts the mergeable frames, a slip of the code.
Watson_merge_report_self_Applies(self, conflict_file_frames) ==
    LET r == Watson_merge_report(self.frames, conflict_file_frames)
    IN  [self |-> [self EXCEPT !.frames =
                      [i \in DOMAIN @ \cup {g.id : g \in {r.merging[k] : k \in 1 .. Len(r.merging)}} |->
                          IF i \in DOMAIN @ THEN @[i]
                          ELSE CHOOSE g \in {r.merging[k] : k \in 1 .. Len(r.merging)} : g.id = i]],
         r |-> r]

\* Watson.merge_report(frames_with_conflict) on the Watson object: it reads
\* self.frames and assigns nothing.
Watson_merge_report_self(self, conflict_file_frames) ==
    [self |-> self, r |-> Watson_merge_report(self.frames, conflict_file_frames)]

(***************************************************************************)
(* Actions                                                                 *)
(***************************************************************************)
Observed == [op |-> op, outcome |-> outcome]

\* What the sync rounds of a behaviour selected so far, as <<id, updated_at>>
\* pairs: last_pull is the largest last_pull given to push, offered the
\* frames of every push batch, uploaded those of the pushes that succeeded,
\* boundary the stored frames that were updated exactly at a last_pull the
\* caller then made the cursor, pulled the frames the last pull applied;
\* again and uploaded_again are the frames of the last batch that an earlier
\* batch (an earlier uploaded batch) held already.
Pairs(q) == {<<q[k].id, q[k].updated_at>> : k \in 1 .. Len(q)}

NoSync ==
    [last_pull |-> 0, offered |-> {}, uploaded |-> {}, boundary |-> {},
     pulled |-> <<>>, again |-> {}, uploaded_again |-> {}]

\* The observation every call leaves behind.
Report(o, a, sent, resp, yld, bt, res, err) ==
    /\ op' = o
    /\ arg' = a
    /\ old_frames' = frames
    /\ old' = [last_sync |-> last_sync, current |-> current,
               backend |-> kept_backend, fetches |-> fetches]
    /\ requests' = sent
    /\ response' = resp
    /\ yielded' = yld
    /\ batch' = bt
    /\ result' = res
    /\ outcome' = err
    /\ prev' = Observed

\* The successful requests of the projects listing among `sent`.
Fetched(sent) ==
    Cardinality({k \in 1 .. Len(sent) :
        sent[k].method = "GET" /\ sent[k].route = "projects" /\ sent[k].net = "ok"})

\* The state and the observation a call leaves: w.self is the Watson object
\* after it, w.r what the call sent, built and raised.
PullDone(w, body) ==
    /\ frames' = w.self.frames
    /\ last_sync' = w.self._last_sync
    /\ current' = w.self.current
    /\ Report("pull", <<>>, w.r.sent, IF w.r.sent # <<>> THEN body ELSE <<>>,
              w.r.yielded, <<>>, w.r.frames, w.r.err)
    /\ sync' = [sync EXCEPT !.pulled = IF w.r.err = NoError THEN w.r.frames ELSE <<>>]
    /\ UNCHANGED <<last_sync_file, kept_backend, fetches, config, remote>>

PushDone(w, last_pull) ==
    /\ frames' = w.self.frames
    /\ last_sync' = w.self._last_sync
    /\ current' = w.self.current
    /\ Report("push", last_pull, w.r.sent, <<>>, <<>>, w.batch, w.r.uploaded, w.r.err)
    /\ sync' = [sync EXCEPT
           !.last_pull = IF last_pull > @ THEN last_pull ELSE @,
           !.offered = @ \cup Pairs(w.batch),
           !.uploaded = IF w.r.err = NoError THEN @ \cup Pairs(w.batch) ELSE @,
           !.again = Pairs(w.batch) \cap sync.offered,
           !.uploaded_again = Pairs(w.batch) \cap sync.uploaded]
    /\ UNCHANGED <<last_sync_file, kept_backend, fetches, config, remote>>

MergeReportDone(w, conflict) ==
    /\ frames' = w.self.frames
    /\ last_sync' = w.self._last_sync
    /\ current' = w.self.current
    /\ Report("merge_report", conflict, <<>>, <<>>, <<>>, <<>>,
              <<w.r.conflicting, w.r.merging>>, NoError)
    /\ UNCHANGED <<last_sync_file, kept_backend, fetches, sync, config, remote>>

SessionCallDone(o, a, w) ==
    /\ frames' = w.self.frames
    /\ last_sync' = w.self._last_sync
    /\ current' = w.self.current
    /\ Report(o, a, <<>>, <<>>, <<>>, <<>>, w.ret, w.err)
    /\ UNCHANGED <<last_sync_file, kept_backend, fetches, sync, config, remote>>

BackendPullDone(st, cursor, body) ==
    /\ kept_backend' = st.self
    /\ fetches' = fetches + Fetched(st.sent)
    /\ Report("backend.pull", cursor, st.sent, IF st.sent # <<>> THEN body ELSE <<>>,
              st.yielded, <<>>, st.yielded, st.err)
    /\ UNCHANGED <<frames, last_sync, last_sync_file, current, sync, config, remote>>

BackendPushDone(self, r, last_pull, b) ==
    /\ kept_backend' = self
    /\ fetches' = fetches + Fetched(r.sent)
    /\ Report("backend.push", last_pull, r.sent, <<>>, <<>>, b, r.uploaded, r.err)
    /\ UNCHANGED <<frames, last_sync, last_sync_file, current, sync, config, remote>>

\* A call of Watson.pull().  The environment chooses how the two requests
\* end and in which order the server lists its frames (a failed frames
\* request carries no frames, and without frames no projects request is made).
Pull ==
    \E fnet \in NetOutcomes :
    \E body \in IF fnet = "ok"
                THEN FramesSince(remote, last_sync_getter(last_sync, last_sync_file))
                ELSE {<<>>} :
    \E pnet \in IF body = <<>> THEN {"ok"} ELSE NetOutcomes :
        PullDone(Watson_pull_self(Self(frames, last_sync, current), last_sync_file,
                                  config, fnet, pnet, body), body)

\* A call of Watson.push(last_pull).
Push ==
    \E last_pull \in Time, pnet \in NetOutcomes, postnet \in NetOutcomes :
        PushDone(Watson_push_self(Self(frames, last_sync, current), last_sync_file,
                                  config, last_pull, pnet, postnet), last_pull)

\* The frame sets a conflict file may hold: sequences of at most MaxConflict
\* frames (ids may repeat in a file).
RECURSIVE SeqsUpTo(_, _)
SeqsUpTo(S, n) ==
    IF n = 0 THEN {<<>>}
    ELSE SeqsUpTo(S, n - 1)
         \cup {Append(q, x) : q \in {r \in SeqsUpTo(S, n - 1) : Len(r) = n - 1}, x \in S}

FramesOver(projects, tagsets) ==
    {Frame(0, 1, p, i, t, u) : p \in projects, i \in Ids, t \in tagsets, u \in Time}

\* A call of Watson.merge_report(conflict file), the file holding one of
\* `conflicts`.
MergeReportOf(conflicts) ==
    \E conflict \in conflicts :
        MergeReportDone(
            Watson_merge_report_self(Self(frames, last_sync, current), conflict),
            conflict)

MergeReport ==
    MergeReportOf(SeqsUpTo(FramesOver({"A", "B"}, {<<>>}), MaxConflict))

\* `watson.last_sync = value`, by the caller of the engine.  When the value
\* is the last_pull of the push just made, the stored frames updated exactly
\* then become boundary frames.
SetLastSyncTo(value) ==
    /\ last_sync' = last_sync_setter(value)
    /\ Report("set_last_sync", value, <<>>, <<>>, <<>>, <<>>, <<>>, NoError)
    /\ sync' = [sync EXCEPT !.boundary =
           IF op = "push" /\ value = arg
           THEN @ \cup {p \in Pairs(Iter(frames)) : p[2] = value}
           ELSE @]
    /\ UNCHANGED <<frames, last_sync_file, current, kept_backend, fetches, config, remote>>

SetLastSync == \E value \in {Unloaded} \cup Time : SetLastSyncTo(value)

\* The caller's step closing a sync round: after a push that succeeded, the
\* cursor becomes that push's last_pull.
Advance == op = "push" /\ outcome = NoError /\ SetLastSyncTo(arg)

\* A caller that keeps one backend instance makes at most MaxFetches
\* successful listing requests through it in the behaviours explored.
MaxFetches == 3

\* backend.pull(cursor) on the kept backend instance, the generator run to
\* its end.
BackendPull ==
    /\ fetches < MaxFetches
    /\ \E cursor \in {last_sync_getter(last_sync, last_sync_file)}, fnet \in NetOutcomes :
       \E body \in IF fnet = "ok" THEN FramesSince(remote, cursor) ELSE {<<>>} :
       \E pnet \in IF body = <<>> THEN {"ok"} ELSE NetOutcomes :
           BackendPullDone(ArtichIOSync_pull(kept_backend, cursor, fnet, pnet, body),
                           cursor, body)

\* backend.push(frames) on the kept backend instance, the frames being
\* those of a push window.
BackendPush ==
    /\ fetches < MaxFetches
    /\ \E last_pull \in Time, pnet \in NetOutcomes, postnet \in NetOutcomes :
       \E b \in {PushBatch(frames, last_sync, last_pull)} :
           BackendPushDone(ArtichIOSync_push_self(kept_backend, b, pnet),
                           ArtichIOSync_push(kept_backend, b, pnet, postnet),
                           last_pull, b)

\* Session names and tags given to start.
ProjectNames == {"", "A"}

\* Watson.start(project, tags) at time now.
Start ==
    \E project \in ProjectNames, now \in Time :
        SessionCallDone("start", project,
            Watson_start(Self(frames, last_sync, current), project, <<>>, now))

\* Watson.stop() at time now; the new frame gets an identifier no stored
\* frame has.
Stop ==
    \E id \in Ids \ DOMAIN frames, now \in Time :
        SessionCallDone("stop", id,
            Watson_stop(Self(frames, last_sync, current), id, now))

\* Watson.cancel()
Cancel ==
    SessionCallDone("cancel", <<>>, Watson_cancel(Self(frames, last_sync, current)))

(***************************************************************************)
(* Initial states and specifications                                       *)
(***************************************************************************)
\* The local stores whose frames have a project of `projects`.
StoresOver(projects) ==
    UNION {{[i \in S |-> Frame(0, 1, f[i][1], i, <<>>, f[i][2])] :
               f \in [S -> projects \X Time]} : S \in SUBSET Ids}

\* The server states whose frames reference a project of `refs`.
RemotesOver(refs) ==
    UNION {{[i \in S |-> JsonFrame(i, 0, 1, f[i][1], <<>>, f[i][2])] :
               f \in [S -> refs \X Time]} : S \in SUBSET Ids}

GoodConfig == [url |-> "https://host/api/", token |-> "secret"]

\* backend.url or backend.token missing (None) or empty.
BadConfigs ==
    {[url |-> u, token |-> t] :
        u \in {None, "", GoodConfig.url}, t \in {None, "", GoodConfig.token}}
    \ {GoodConfig}

NoCall ==
    /\ op = "none"
    /\ arg = <<>>
    /\ old_frames = frames
    /\ requests = <<>>
    /\ response = <<>>
    /\ yielded = <<>>
    /\ batch = <<>>
    /\ result = <<>>
    /\ outcome = NoError
    /\ prev = [op |-> "none", outcome |-> NoError]
    /\ fetches = 0
    /\ old = [last_sync |-> last_sync, current |-> current,
              backend |-> kept_backend, fetches |-> fetches]
    /\ sync = NoSync

\* No kept backend instance.
NoBackend == << >>

\* The cursor loaded, no session in progress, no backend instance kept.
Settled ==
    /\ last_sync_file = NoFile
    /\ current = NoSession
    /\ kept_backend = NoBackend

\* Pull: any local store, any server state, any cursor.
InitPull ==
    /\ frames \in StoresOver({"B"})
    /\ remote \in RemotesOver({JStr("uA"), JStr("uB"), JStr("uX"), JObj("p9")})
    /\ last_sync \in Time
    /\ config = GoodConfig
    /\ Settled
    /\ NoCall

\* One call from each initial state: Init ranges over every state within
\* the bounds, so a later call starts from a state Init already covers.
FirstCall == op = "none"

NextPull == FirstCall /\ Pull

SpecPull == InitPull /\ [][NextPull]_vars

\* Pull after pull, any number of times, the server's frames unchanged.
InitPullTwice ==
    /\ frames \in StoresOver({"B"})
    /\ remote \in RemotesOver({JStr("uB")})
    /\ last_sync \in Time
    /\ config = GoodConfig
    /\ Settled
    /\ NoCall

SpecPullTwice == InitPullTwice /\ [][Pull]_vars

\* Push: any local store (project C has no remote counterpart), any cursor.
InitPush ==
    /\ frames \in StoresOver({"A", "B", "C"})
    /\ remote = << >>
    /\ last_sync \in Time
    /\ config = GoodConfig
    /\ Settled
    /\ NoCall

NextPush == FirstCall /\ Push

SpecPush == InitPush /\ [][NextPush]_vars

\* merge_report: any local store.
InitMerge ==
    /\ frames \in StoresOver({"A", "B"})
    /\ remote = << >>
    /\ last_sync = 0
    /\ config = GoodConfig
    /\ Settled
    /\ NoCall

NextMerge == FirstCall /\ MergeReport

SpecMerge == InitMerge /\ [][NextMerge]_vars

\* Both directions under any configuration, complete or not.
InitConfig ==
    /\ frames \in StoresOver({"A"})
    /\ remote \in RemotesOver({JStr("uA")})
    /\ last_sync = 0
    /\ config \in BadConfigs \cup {GoodConfig}
    /\ Settled
    /\ NoCall

NextConfig == FirstCall /\ (Pull \/ Push)

SpecConfig == InitConfig /\ [][NextConfig]_vars

\* The cursor: loaded or not, the last_sync file missing, empty or holding a
\* timestamp; one call, or the caller's assignment and then one call.
LastSyncFiles == {NoFile, EmptyFile} \cup {JsonFile(n) : n \in Time}

InitCursor ==
    /\ frames \in {st \in StoresOver({"A"}) : DOMAIN st \subseteq {IdSeq[1]}}
    /\ remote \in RemotesOver({JStr("uA")})
    /\ last_sync \in {Unloaded} \cup Time
    /\ last_sync_file \in IF last_sync = Unloaded THEN LastSyncFiles ELSE {NoFile}
    /\ config \in {GoodConfig, [GoodConfig EXCEPT !.token = ""]}
    /\ current = NoSession
    /\ kept_backend = NoBackend
    /\ NoCall

NextCursor ==
    \/ FirstCall /\ SetLastSync
    \/ op \in {"none", "set_last_sync"} /\ Pull
    \/ FirstCall /\ Push

SpecCursor == InitCursor /\ [][NextCursor]_vars

\* Sessions and synchronisation together: a session in progress or not,
\* then one call, or start / stop / cancel and one more call.
Sessions == {NoSession} \cup {[project |-> "A", start |-> t, tags |-> <<>>] : t \in Time}

SessionConflicts == {<<>>} \cup {<<f>> : f \in FramesOver({"A"}, {<<>>})}

InitSession ==
    /\ frames \in {st \in StoresOver({"A"}) : Cardinality(DOMAIN st) <= 1}
    /\ remote \in {rm \in RemotesOver({JStr("uA")}) : Cardinality(DOMAIN rm) <= 1}
    /\ last_sync = Epoch
    /\ last_sync_file = NoFile
    /\ current \in Sessions
    /\ config = GoodConfig
    /\ kept_backend = NoBackend
    /\ NoCall

AnyCall ==
    \/ Start
    \/ Stop
    \/ Cancel
    \/ Pull
    \/ Push
    \/ MergeReportOf(SessionConflicts)

NextSession ==
    \/ FirstCall /\ AnyCall
    \/ op \in {"start", "stop", "cancel"} /\ prev.op = "none" /\ AnyCall

SpecSession == InitSession /\ [][NextSession]_vars

\* One backend instance kept over any number of backend.pull / backend.push
\* calls, next to Watson.pull / Watson.push calls, which build their own.
InitCache ==
    /\ frames \in {st \in StoresOver({"A"}) : DOMAIN st \subseteq {IdSeq[1]}}
    /\ remote \in {rm \in RemotesOver({JStr("uA")}) : Cardinality(DOMAIN rm) <= 1}
    /\ last_sync = Epoch
    /\ last_sync_file = NoFile
    /\ current = NoSession
    /\ config = GoodConfig
    /\ kept_backend = ArtichIOSync(config)
    /\ NoCall

NextCache ==
    \/ op \notin {"pull", "push"} /\ BackendPull
    \/ op \notin {"pull", "push"} /\ BackendPush
    \/ prev.op = "none" /\ Pull
    \/ prev.op = "none" /\ Push

SpecCache == InitCache /\ [][NextCache]_vars

\* Sync rounds: pull, then push(last_pull) with a last_pull that never
\* decreases, then, the push having succeeded, the caller makes last_pull
\* the cursor.  A failed call is followed by a new round.
InitRounds ==
    /\ frames \in {st \in StoresOver({"A"}) : Cardinality(DOMAIN st) <= 1}
    /\ remote \in {rm \in RemotesOver({JStr("uA")}) : Cardinality(DOMAIN rm) <= 1}
    /\ last_sync = Epoch
    /\ last_sync_file = NoFile
    /\ current = NoSession
    /\ config = GoodConfig
    /\ kept_backend = NoBackend
    /\ NoCall

RoundPull ==
    /\ \/ op \in {"none", "set_last_sync"}
       \/ op \in {"pull", "push"} /\ outcome # NoError
    /\ Pull

RoundPush ==
    /\ op = "pull" /\ outcome = NoError
    /\ Push
    /\ arg' >= sync.last_pull

NextRounds ==
    \/ RoundPull
    \/ RoundPush
    \/ Advance

SpecRounds == InitRounds /\ [][NextRounds]_vars

(***************************************************************************)
(* Properties                                                              *)
(***************************************************************************)
Range(q) == {q[k] : k \in 1 .. Len(q)}

\* The project name the listing gives for a project reference, as a set:
\* empty when the reference matches no entry.
NamesFor(ref) ==
    {p.name : p \in {q \in Range(RemoteProjects) : ref.t = "str" /\ q.url = ref.v}}

\* C1: in Watson.pull, with c the cursor read at the start of the call, a
\* frame f yielded by the backend is stored and appended to the result iff
\* f.id was not stored when f was handled or f.updated_at > c (a response
\* lists an id once, so f.id was stored then iff it was before the call);
\* every other yielded frame is neither stored nor in the result, ids that
\* were not yielded keep their frame, and the result is the applied frames in
\* the order they were yielded.
C1_Applied(f) == f.id \notin DOMAIN old_frames \/ f.updated_at > last_sync

C1_PullApplyRule ==
    op = "pull" =>
        /\ \A f \in Range(yielded) :
              IF C1_Applied(f)
              THEN f.id \in DOMAIN frames /\ frames[f.id] = f /\ f \in Range(result)
              ELSE frames[f.id] = old_frames[f.id] /\ f \notin Range(result)
        /\ \A i \in DOMAIN frames \ {f.id : f \in Range(yielded)} :
              i \in DOMAIN old_frames /\ frames[i] = old_frames[i]
        /\ DOMAIN old_frames \subseteq DOMAIN frames
        /\ result = SelectSeq(yielded, C1_Applied)

\* A completed pull that skipped its first frame (stored, updated exactly at
\* the cursor) and applied its second.
C1_Witness ==
    /\ op = "pull" /\ outcome = NoError
    /\ Len(yielded) = 2
    /\ yielded[1].id \in DOMAIN old_frames
    /\ yielded[1].updated_at = last_sync
    /\ old_frames[yielded[1].id] # yielded[1]
    /\ result = <<yielded[2]>>

\* C2: remote wins.  After a completed pull, every frame of the response with
\* updated_at > last_sync is stored locally under its id exactly as the
\* server holds it (its project URL replaced by the project's name),
\* whatever was stored under that id before.
C2_RemoteWins ==
    (op = "pull" /\ outcome = NoError) =>
        \A j \in Range(response) :
            j.updated_at > last_sync =>
                /\ j.id \in DOMAIN frames
                /\ frames[j.id].project \in NamesFor(j.project)
                /\ frames[j.id].start = j.start
                /\ frames[j.id].stop = j.stop
                /\ frames[j.id].tags = j.tags
                /\ frames[j.id].id = j.id
                /\ frames[j.id].updated_at = j.updated_at

\* A completed pull that replaced a local frame updated later than the
\* server's copy and naming another project.
C2_Witness ==
    /\ op = "pull" /\ outcome = NoError
    /\ \E j \in Range(response) :
          /\ j.updated_at > last_sync
          /\ j.id \in DOMAIN old_frames
          /\ old_frames[j.id].updated_at > j.updated_at
          /\ old_frames[j.id].project \notin NamesFor(j.project)
          /\ frames[j.id].updated_at = j.updated_at

\* C3 as stated: a completed pull that directly follows a completed pull,
\* the server's frames unchanged in between, applies no frame.
C3_SecondPullEmpty ==
    (op = "pull" /\ outcome = NoError /\ prev.op = "pull" /\ prev.outcome = NoError)
        => result = <<>>

\* C3 as amended: a completed pull that directly follows a completed pull,
\* with the server's frames and the cursor unchanged in between, applies
\* again exactly the yielded frames with updated_at > last_sync, in the order
\* yielded, and leaves the store as the first pull left it; it applies no
\* frame iff no yielded frame was updated after the cursor.
C3_After(f) == f.updated_at > last_sync

C3_SecondPullReapplies ==
    (op = "pull" /\ outcome = NoError /\ prev.op = "pull" /\ prev.outcome = NoError)
        => /\ result = SelectSeq(yielded, C3_After)
           /\ frames = old_frames

\* A second completed pull that yields one frame updated at the cursor, which
\* it skips, and one updated after it, which it applies again.
C3_Witness ==
    /\ op = "pull" /\ outcome = NoError
    /\ prev.op = "pull" /\ prev.outcome = NoError
    /\ Len(yielded) = 2
    /\ Len(result) = 1
    /\ result[1].updated_at > last_sync

\* C4: push window.  A frame of the local store is in the batch Watson.push
\* hands to the backend iff last_sync < updated_at < last_pull; the batch
\* holds no other frame and no frame twice.
C4_PushWindow ==
    op = "push" =>
        /\ \A i \in DOMAIN frames :
              (frames[i] \in Range(batch))
                  <=> (last_sync < frames[i].updated_at /\ frames[i].updated_at < arg)
        /\ \A f \in Range(batch) : f.id \in DOMAIN frames /\ frames[f.id] = f
        /\ Cardinality(Range(batch)) = Len(batch)

\* A push whose window holds one stored frame while the other stored frame,
\* updated exactly at last_pull, is left out.
C4_Witness ==
    /\ op = "push"
    /\ Len(batch) = 1
    /\ \E i \in DOMAIN frames : frames[i].updated_at = arg /\ arg > last_sync
    /\ \E i \in DOMAIN frames : frames[i] = batch[1]

\* C5: merge_report classification.  A frame g of the conflict set is in
\* `conflicting` iff the store holds g.id with a frame differing from g in
\* some field, in `merging` iff the store does not hold g.id, and in neither
\* list iff the store holds a frame equal to g in every field; both lists
\* keep the order of the conflict set.
C5_FieldEqual(a, b) ==
    /\ a.start = b.start /\ a.stop = b.stop /\ a.project = b.project
    /\ a.id = b.id /\ a.tags = b.tags /\ a.updated_at = b.updated_at

C5_Conflicts(g) == g.id \in DOMAIN frames /\ ~C5_FieldEqual(frames[g.id], g)

C5_Merges(g) == g.id \notin DOMAIN frames

C5_MergeClassification ==
    op = "merge_report" =>
        /\ result[1] = SelectSeq(arg, C5_Conflicts)
        /\ result[2] = SelectSeq(arg, C5_Merges)
        /\ \A g \in Range(arg) :
              (g.id \in DOMAIN frames /\ C5_FieldEqual(frames[g.id], g))
                  <=> (g \notin Range(result[1]) /\ g \notin Range(result[2]))

\* A report over a conflict set whose first frame equals the stored one and
\* is dropped and whose second frame differs from the stored one only in
\* updated_at and is reported as conflicting.
C5_Witness ==
    /\ op = "merge_report"
    /\ Len(arg) = 2
    /\ arg[1].id \in DOMAIN frames /\ frames[arg[1].id] = arg[1]
    /\ arg[2].id \in DOMAIN frames
    /\ arg[2].project = frames[arg[2].id].project
    /\ arg[2].updated_at # frames[arg[2].id].updated_at
    /\ result = <<(<<arg[2]>>), <<>>>>

\* A frame of the push batch whose project has no remote counterpart.
Unresolvable(f) == \A p \in Range(RemoteProjects) : p.name # f.project

\* C6 as stated: when a frame of the batch has a project with no remote
\* counterpart, push fails and has issued no request at all.
C6_NoRequestAtAll ==
    (op = "push" /\ \E f \in Range(batch) : Unresolvable(f))
        => outcome # NoError /\ requests = <<>>

\* C6 as amended: when a frame of the batch has a project with no remote
\* counterpart, push fails and has issued no bulk POST; the only request it
\* has issued is the GET of the projects listing, once.
C6_NoPostBeforeValidation ==
    (op = "push" /\ \E f \in Range(batch) : Unresolvable(f))
        => /\ outcome # NoError
           /\ result = <<>>
           /\ \A r \in Range(requests) : r.method = "GET" /\ r.route = "projects"
           /\ Len(requests) = 1

\* A push that resolved its first frame, then failed on the second, whose
\* project does not exist remotely.
C6_Witness ==
    /\ op = "push"
    /\ Len(batch) = 2
    /\ ~Unresolvable(batch[1]) /\ Unresolvable(batch[2])
    /\ outcome = ProjectMissing
    /\ Len(requests) = 1 /\ requests[1].net = "ok"

\* C7: when a request of pull ends in a connection failure (the frames
\* request or the projects request), pull raises the unreachable-server
\* error and the local store is as it was before the call.
C7_ConnectionFailure ==
    (op = "pull" /\ \E r \in Range(requests) : r.net = "conn")
        => /\ outcome = Unreachable
           /\ frames = old_frames
           /\ yielded = <<>>

\* A pull whose frames request succeeded with a frame the store lacks and
\* whose projects request then failed to connect.
C7_Witness ==
    /\ op = "pull"
    /\ Len(requests) = 2
    /\ requests[1].net = "ok"
    /\ requests[2].route = "projects" /\ requests[2].net = "conn"
    /\ \E j \in Range(response) : j.id \notin DOMAIN old_frames /\ NamesFor(j.project) # {}
    /\ outcome = Unreachable

\* A pull aborted by a frame whose project the listing does not resolve.
AbortedOnProject == op = "pull" /\ outcome \in {InvalidProject, TypeError}

\* C8 as stated: when pull aborts on a frame whose project cannot be
\* resolved, the local store is as it was before the call, also when
\* earlier frames of the response were applied.
C8_AbortLeavesStore == AbortedOnProject => frames = old_frames

\* C9 as stated: when the response holds a frame whose project matches no
\* entry of the (successfully fetched) listing, pull ends with the
\* WatsonError that reports the invalid project.
C9_InvalidProjectError ==
    (/\ op = "pull"
     /\ Len(requests) = 2 /\ requests[2].net = "ok"
     /\ \E j \in Range(response) : NamesFor(j.project) = {})
        => outcome = InvalidProject

\* C10: with backend.url or backend.token missing or empty, pull and push
\* raise ConfigurationError and issue no request; the store is untouched.
C10_ConfigurationFirst ==
    (op \in {"pull", "push"} /\ ~(Truthy(config.url) /\ Truthy(config.token)))
        => /\ outcome = ConfigurationError
           /\ requests = <<>>
           /\ result = <<>>
           /\ frames = old_frames

\* A pull with a URL but an empty token, the server holding a frame the
\* cursor admits.
C10_Witness ==
    /\ op = "pull"
    /\ config.url = GoodConfig.url /\ config.token = ""
    /\ \E i \in DOMAIN remote : remote[i].updated_at >= last_sync
    /\ outcome = ConfigurationError
    /\ requests = <<>>

\* C11: the engine never advances the cursor.  After any pull() or
\* push(last_pull), completed or failed, the last_sync property reads the
\* value it read before the call (a call may load it from the last_sync file,
\* which does not change what it reads).
C11_CursorKept ==
    op \in {"pull", "push"} =>
        last_sync_getter(last_sync, last_sync_file)
            = last_sync_getter(old.last_sync, last_sync_file)

\* A push that uploaded a non-empty batch, the cursor loaded by that call
\* and different from last_pull.
C11_Witness ==
    /\ op = "push" /\ outcome = NoError
    /\ batch # <<>>
    /\ old.last_sync = Unloaded
    /\ last_sync # arg

\* C18: default cursor.  With the last_sync file missing or empty and the
\* cursor not loaded, the last_sync property reads epoch 0; setting the cursor
\* to None or 0 makes it epoch 0; a pull in either situation asks the server
\* for the frames since 0 and applies exactly the yielded frames that are
\* absent locally or have updated_at > 0.
C18_DefaultBefore ==
    \/ old.last_sync = Unloaded /\ last_sync_file.state \in {"missing", "empty"}
    \/ prev.op = "set_last_sync" /\ old.last_sync = Epoch

C18_AppliedFromEpoch(f) == f.id \notin DOMAIN old_frames \/ f.updated_at > Epoch

C18_DefaultCursor ==
    /\ (last_sync = Unloaded /\ last_sync_file.state \in {"missing", "empty"})
          => last_sync_getter(last_sync, last_sync_file) = Epoch
    /\ (op = "set_last_sync" /\ arg \in {Unloaded, 0}) => last_sync = Epoch
    /\ (op = "pull" /\ C18_DefaultBefore) =>
          /\ last_sync = Epoch
          /\ requests # <<>> => requests[1].data = <<Epoch>>
          /\ result = SelectSeq(yielded, C18_AppliedFromEpoch)
          /\ \A f \in Range(result) : frames[f.id] = f

\* A completed first pull with an empty last_sync file: one frame applied,
\* one (stored, updated at 0) skipped.
C18_Witness ==
    /\ op = "pull" /\ outcome = NoError
    /\ old.last_sync = Unloaded /\ last_sync_file = EmptyFile
    /\ Len(yielded) = 2 /\ Len(result) = 1
    /\ \E f \in Range(yielded) :
          f.id \in DOMAIN old_frames /\ f.updated_at = 0 /\ f \notin Range(result)

\* C12: merge_report performs no mutation: after the call the store, the
\* cursor and the session in progress are what they were before it.
C12_MergeReportReadOnly ==
    op = "merge_report" =>
        /\ frames = old_frames
        /\ last_sync = old.last_sync
        /\ current = old.current

\* A merge_report during a session, over a non-empty store, that classified
\* a frame of the conflict file as mergeable.
C12_Witness ==
    /\ op = "merge_report"
    /\ current # NoSession
    /\ DOMAIN frames # {}
    /\ result[2] # <<>>

\* C14: no deletion.  Every call of pull, push, merge_report, start, stop
\* or cancel leaves every stored id stored (so does every sequence of them);
\* pull leaves a frame as it was unless the backend yielded a frame with its
\* id, which it may have stored in its place; push, merge_report, start and
\* cancel leave the store unchanged; stop leaves the stored frames as they
\* were.
C14_NoDeletion ==
    /\ op \in {"pull", "push", "merge_report", "start", "stop", "cancel"} =>
          \A i \in DOMAIN old_frames : i \in DOMAIN frames
    /\ op = "pull" =>
          \A i \in DOMAIN frames :
              \/ i \in DOMAIN old_frames /\ frames[i] = old_frames[i]
              \/ \E f \in Range(yielded) : f.id = i /\ frames[i] = f
    /\ op \in {"push", "merge_report", "start", "cancel"} => frames = old_frames
    /\ op = "stop" => \A i \in DOMAIN old_frames : frames[i] = old_frames[i]

\* A completed pull that inserted a frame next to a stored frame the server
\* did not send.
C14_Witness ==
    /\ op = "pull" /\ outcome = NoError
    /\ result # <<>>
    /\ \E i \in DOMAIN old_frames :
          /\ \A f \in Range(yielded) : f.id # i
          /\ frames[i] = old_frames[i]
    /\ DOMAIN frames # DOMAIN old_frames

\* C17: the session in progress is never part of the synchronised set.
\* pull, push and merge_report leave the session as it was, a push batch
\* holds stored frames only, and a pull stores only frames the backend
\* yielded.  Only stop() turns the session into a frame: with a session in
\* progress it adds exactly one frame, with the session's project, start and
\* tags, and clears the session; cancel() clears the session and leaves the
\* store unchanged; start() leaves the store unchanged.
C17_SessionNotSynchronised ==
    /\ op \in {"pull", "push", "merge_report"} => current = old.current
    /\ op = "push" => \A f \in Range(batch) : f.id \in DOMAIN old_frames /\ old_frames[f.id] = f
    /\ op = "pull" =>
          \A i \in DOMAIN frames \ DOMAIN old_frames : frames[i] \in Range(yielded)
    /\ (op = "stop" /\ old.current # NoSession) =>
          /\ outcome = NoError
          /\ current = NoSession
          /\ Cardinality(DOMAIN frames \ DOMAIN old_frames) = 1
          /\ \A i \in DOMAIN frames \ DOMAIN old_frames :
                /\ frames[i].project = old.current.project
                /\ frames[i].start = old.current.start
                /\ frames[i].tags = old.current.tags
                /\ frames[i].id = i
          /\ \A i \in DOMAIN old_frames : frames[i] = old_frames[i]
    /\ (op = "stop" /\ old.current = NoSession) =>
          outcome = NotStarted /\ frames = old_frames /\ current = NoSession
    /\ (op = "cancel" /\ old.current # NoSession) =>
          outcome = NoError /\ current = NoSession /\ frames = old_frames
    /\ op = "start" => frames = old_frames

\* start() and then stop(), over a store that held a frame already.
C17_Witness ==
    /\ op = "stop" /\ prev.op = "start"
    /\ outcome = NoError
    /\ DOMAIN old_frames # {}
    /\ current = NoSession

\* C16: empty push.  When no stored frame lies in the push window (the
\* store may be empty), push, the backend being configured, sends exactly one
\* request: the bulk POST with an empty array; it requests no project
\* listing, and it returns an empty list when the server accepts the POST
\* (otherwise it raises the error of the failed request and returns nothing).
C16_EmptyPush ==
    (op = "push" /\ batch = <<>>) =>
        /\ Len(requests) = 1
        /\ requests[1].method = "POST"
        /\ requests[1].route = "frames/bulk"
        /\ requests[1].data = <<>>
        /\ result = <<>>
        /\ outcome = (IF requests[1].net = "ok" THEN NoError
                      ELSE IF requests[1].net = "conn" THEN Unreachable
                      ELSE RemoteStatus)

\* An accepted push from a non-empty store none of whose frames lies in the
\* window.
C16_Witness ==
    /\ op = "push" /\ outcome = NoError
    /\ DOMAIN frames # {}
    /\ batch = <<>>
    /\ Len(requests) = 1 /\ requests[1].net = "ok"

\* C13: the project-listing cache.  Over any sequence of pull and push
\* calls on one backend instance the listing is fetched successfully at most
\* once: a call on an instance that holds the listing sends no projects
\* request.  The cache is not shared: Watson.pull() and Watson.push() leave
\* a kept instance alone and, working on an instance of their own, send
\* their own projects request whenever they resolve a frame, whatever other
\* instances hold and whatever earlier calls fetched.
C13_ProjectsRequests == {k \in 1 .. Len(requests) : requests[k].route = "projects"}

C13_ListingCache ==
    /\ fetches <= 1
    /\ (op \in {"backend.pull", "backend.push"} /\ old.backend.has_remote_projects)
          => C13_ProjectsRequests = {} /\ kept_backend = old.backend
    /\ op \in {"backend.pull", "backend.push"} =>
          (kept_backend.has_remote_projects <=> fetches = 1)
    /\ op \in {"pull", "push"} =>
          /\ kept_backend = old.backend
          /\ fetches = old.fetches
          /\ Cardinality(C13_ProjectsRequests) =
                IF (op = "pull" /\ response # <<>>) \/ (op = "push" /\ batch # <<>>)
                THEN 1 ELSE 0

\* A push on the kept instance, which held the listing already, uploading a
\* frame without a projects request.
C13_Witness ==
    /\ op = "backend.push" /\ outcome = NoError
    /\ old.backend.has_remote_projects
    /\ batch # <<>>
    /\ fetches = 1
    /\ C13_ProjectsRequests = {}

\* C15 as stated: over sync rounds in which the caller makes last_pull the
\* cursor after each successful push and last_pull never decreases, no frame
\* of a push batch (same id, same updated_at) was in the batch of an earlier
\* push.
C15_AtMostOneBatch == op = "push" => sync.again = {}

\* C15, amended: over such rounds no frame of a push batch (same id, same
\* updated_at) was in the batch of an earlier push that succeeded; the
\* frames of a failed push are selected again by the next round.
C15_AtMostOneUpload == op = "push" => sync.uploaded_again = {}

\* A later round, the cursor advanced, leaving out a frame that an earlier
\* push uploaded and that is still stored as it was.
C15_Witness ==
    /\ op = "push" /\ outcome = NoError
    /\ \E p \in sync.uploaded :
          /\ p \in Pairs(Iter(frames))
          /\ p \notin Pairs(batch)
          /\ p[2] < arg

\* C19: boundary frames are never uploaded.  A push batch holds no frame
\* updated exactly at its last_pull, and no frame (same id, same updated_at)
\* that was updated exactly at the last_pull of an earlier round which the
\* caller then made the cursor.
C19_BoundaryExcluded ==
    op = "push" =>
        /\ \A f \in Range(batch) : f.updated_at # arg
        /\ Pairs(batch) \cap sync.boundary = {}

\* A later round with a larger last_pull leaving out a stored frame that
\* was on the boundary of an earlier round.
C19_Witness ==
    /\ op = "push" /\ outcome = NoError
    /\ \E p \in sync.boundary :
          /\ p \in Pairs(Iter(frames))
          /\ p[2] < arg
          /\ p \notin Pairs(batch)

\* C20: pulled frames are echoed back.  Every frame the preceding completed
\* pull applied, with last_sync < updated_at < last_pull, is in the batch of
\* the following push(last_pull).
C20_PulledEchoed ==
    (op = "push" /\ prev.op = "pull" /\ prev.outcome = NoError) =>
        \A f \in Range(sync.pulled) :
            (last_sync < f.updated_at /\ f.updated_at < arg) => f \in Range(batch)

\* A push that uploaded a frame the pull just before it had inserted.
C20_Witness ==
    /\ op = "push" /\ prev.op = "pull" /\ outcome = NoError
    /\ \E f \in Range(sync.pulled) :
          /\ f \in Range(batch)
          /\ \E k \in 1 .. Len(result) : result[k].id = f.id

====
